---- MODULE Spec2Model ----
(***************************************************************************)
(* Model of source/capsense.c: the CapSense scan scheduler of the PSoC 6   *)
(* low-power CapSense FreeRTOS example.  One worker task (capsense_task)   *)
(* runs a four-state FSM; the software timer callback and the CapSense     *)
(* end-of-scan callback post a value to the task's notification slot with  *)
(* eSetValueWithOverwrite; xTaskNotifyWait copies that value into the FSM  *)
(* variable `state`.                                                       *)
(***************************************************************************)
EXTENDS Integers, Naturals, FiniteSets, Sequences, TLC

(* ---- program constants (capsense.c macros) ---- *)
CAPSENSE_FAST_SCAN_INTERVAL_MS == 20
CAPSENSE_SLOW_SCAN_INTERVAL_MS == 200
MAX_CAPSENSE_FAST_SCAN_COUNT == 100
RESET_CAPSENSE_FAST_SCAN_COUNT == 1
INITIATE_SCAN == 1
WAIT_IN_SLEEP == 2
PROCESS_TOUCH == 3
WAIT_IN_DEEP_SLEEP == 4
UNUSED_STATE == 5

(* The build flag: the example is built without the tuner unless           *)
(* CAPSENSE_TUNER_ENABLE is added to the defines.                          *)
CAPSENSE_TUNER_ENABLE == FALSE

(* Widget identifiers (cycfg_capsense.h), kept symbolic. *)
CY_CAPSENSE_LINEARSLIDER0_WDGT_ID == "LINEARSLIDER0"
CY_CAPSENSE_GANGEDSENSOR_WDGT_ID == "GANGEDSENSOR"

(* ---- bounds of the model ---- *)
\* slider coordinates reported by the driver are drawn from 0..MaxPos
MaxPos == 2
\* the driver reports 0..MaxTouches touch positions for the slider
MaxTouches == 1
\* outstanding deep-sleep locks are followed up to MaxLocks
MaxLocks == 3
\* a sustained hold since start-up is followed for HoldLen passes
HoldLen == 3

Positions == 0 .. MaxPos
NoHold == [p |-> 0, k |-> -1]

VARIABLES
    pc,                        \* position of capsense_task: "start", "switch", "wait", "halt"
    state,                     \* static uint32_t state
    is_fast_scan_enabled,      \* static bool is_fast_scan_enabled
    capsense_fast_scan_count,  \* static uint32_t capsense_fast_scan_count
    slider_position,           \* uint32_t slider_position (local of capsense_task)
    slider_pos_prev,           \* static uint16_t slider_pos_prev (process_touch)
    slider_touch_status,       \* uint8_t slider_touch_status (process_touch), last value read
    slider_pos,                \* uint16_t slider_pos (process_touch), last value read
    notifyValue,               \* the task's notification value (ulNotifiedValue)
    notifyPending,             \* the task's notification state is "received"
    hwBusy,                    \* Cy_CapSense_IsBusy: a started scan has not completed
    armedWidget,               \* widget last set up with Cy_CapSense_SetupWidget
    timerPeriod,               \* period last requested for scan_timer_handle
    timerStarted,              \* xTimerStart has been issued
    locks,                     \* lock_deepsleep calls minus unlock_deepsleep calls
    op,                        \* the step taken last
    newTouch,                  \* value returned by the last process_touch
    misses,                    \* fast passes without new touch since the count was reset
    unprocessed,               \* a scan has completed and no PROCESS_TOUCH pass ran since
    scansSinceTimer,           \* scans started since a timer notification was consumed
    escalated,                 \* slow->fast switch happened and no scan was started since
    hold                       \* sustained hold since start-up: position p, k passes

vars == << pc, state, is_fast_scan_enabled, capsense_fast_scan_count,
           slider_position, slider_pos_prev,
                    slider_touch_status, slider_pos, notifyValue, notifyPending,
           hwBusy, armedWidget, timerPeriod, timerStarted, locks, op,
           newTouch, misses, unprocessed, scansSinceTimer, escalated, hold >>

workerVars == << pc, state, is_fast_scan_enabled, capsense_fast_scan_count,
                 slider_position, slider_pos_prev,
                    slider_touch_status, slider_pos, armedWidget, timerPeriod,
                 timerStarted, locks, newTouch, misses, scansSinceTimer,
                 escalated, hold >>

(* State at entry of capsense_task: the statics hold their initialisers,   *)
(* slider_pos_prev is zero-initialised, nothing has been notified.         *)
Init ==
    /\ pc = "start"
    /\ state = INITIATE_SCAN
    /\ is_fast_scan_enabled = TRUE
    /\ capsense_fast_scan_count = RESET_CAPSENSE_FAST_SCAN_COUNT
    /\ slider_position = 0
    /\ slider_pos_prev = 0
    /\ slider_touch_status = 0
    /\ slider_pos = 0
    /\ notifyValue = 0
    /\ notifyPending = FALSE
    /\ hwBusy = FALSE
    /\ armedWidget = "none"
    /\ timerPeriod = CAPSENSE_FAST_SCAN_INTERVAL_MS
    /\ timerStarted = FALSE
    /\ locks = 0
    /\ op = "none"
    /\ newTouch = FALSE
    /\ misses = 0
    /\ unprocessed = FALSE
    /\ scansSinceTimer = 0
    /\ escalated = FALSE
    /\ hold = [p |-> 0, k |-> 0]

(* Variant of capsense_task_init that does not stop on a failed            *)
(* initialize_capsense and goes on to start the timer and the loop.        *)
capsense_task_init_NoHalt ==
    /\ pc = "start"
    /\ \E initOk \in BOOLEAN, timerOk \in BOOLEAN :
          /\ armedWidget' = IF CAPSENSE_TUNER_ENABLE THEN armedWidget
                            ELSE CY_CAPSENSE_LINEARSLIDER0_WDGT_ID
          /\ locks' = IF CAPSENSE_TUNER_ENABLE THEN locks + 1 ELSE locks
          /\ IF timerOk
             THEN /\ pc' = "switch" /\ timerStarted' = TRUE
                  /\ op' = IF initOk THEN "init" ELSE "init_failed"
             ELSE pc' = "halt" /\ timerStarted' = FALSE /\ op' = "timer_failed"
    /\ UNCHANGED << state, is_fast_scan_enabled, capsense_fast_scan_count,
                    slider_position, slider_pos_prev, slider_touch_status,
                    slider_pos, notifyValue, notifyPending,
                    hwBusy, timerPeriod, newTouch, misses, unprocessed,
                    scansSinceTimer, escalated, hold >>

(* capsense_task up to the for(;;) loop: initialize_capsense, the first    *)
(* Cy_CapSense_SetupWidget and xTimerStart.  A failed initialisation or a  *)
(* failed xTimerStart halts the task in CY_ASSERT(0).                      *)
capsense_task_init ==
    /\ pc = "start"
    /\ \E initOk \in BOOLEAN, timerOk \in BOOLEAN :
          IF ~initOk
          THEN /\ pc' = "halt"
               /\ op' = "init_failed"
               /\ UNCHANGED << armedWidget, timerStarted, locks >>
          ELSE /\ armedWidget' = IF CAPSENSE_TUNER_ENABLE THEN armedWidget
                                 ELSE CY_CAPSENSE_LINEARSLIDER0_WDGT_ID
               /\ locks' = IF CAPSENSE_TUNER_ENABLE THEN locks + 1 ELSE locks
               /\ IF timerOk
                  THEN pc' = "switch" /\ timerStarted' = TRUE /\ op' = "init"
                  ELSE pc' = "halt" /\ timerStarted' = FALSE /\ op' = "timer_failed"
    /\ UNCHANGED << state, is_fast_scan_enabled, capsense_fast_scan_count,
                    slider_position, slider_pos_prev,
                    slider_touch_status, slider_pos, notifyValue, notifyPending,
                    hwBusy, timerPeriod, newTouch, misses, unprocessed,
                    scansSinceTimer, escalated, hold >>

(* Variant of InitiateScan that starts the scan without asking             *)
(* Cy_CapSense_IsBusy.                                                     *)
InitiateScan_NoBusyCheck ==
    /\ pc = "switch"
    /\ state = INITIATE_SCAN
    /\ hwBusy' = TRUE
    /\ state' = WAIT_IN_SLEEP
    /\ op' = "start_scan"
    /\ scansSinceTimer' = scansSinceTimer + 1
    /\ escalated' = FALSE
    /\ UNCHANGED << pc, is_fast_scan_enabled, capsense_fast_scan_count,
                    slider_position, slider_pos_prev,
                    slider_touch_status, slider_pos, notifyValue, notifyPending,
                    armedWidget, timerPeriod, timerStarted, locks, newTouch,
                    misses, unprocessed, hold >>

(* Variant of InitiateScan that starts the scan and forgets                *)
(* state = WAIT_IN_SLEEP.                                                  *)
InitiateScan_StayInState ==
    /\ pc = "switch"
    /\ state = INITIATE_SCAN
    /\ IF ~hwBusy
       THEN /\ hwBusy' = TRUE
            /\ op' = "start_scan"
            /\ scansSinceTimer' = scansSinceTimer + 1
            /\ escalated' = FALSE
            /\ UNCHANGED state
       ELSE /\ op' = "busy"
            /\ UNCHANGED << hwBusy, state, scansSinceTimer, escalated >>
    /\ UNCHANGED << pc, is_fast_scan_enabled, capsense_fast_scan_count,
                    slider_position, slider_pos_prev,
                    slider_touch_status, slider_pos, notifyValue, notifyPending,
                    armedWidget, timerPeriod, timerStarted, locks, newTouch,
                    misses, unprocessed, hold >>

(* case INITIATE_SCAN: start a scan if the hardware is not busy. *)
InitiateScan ==
    /\ pc = "switch"
    /\ state = INITIATE_SCAN
    /\ IF ~hwBusy
       THEN /\ hwBusy' = TRUE
            /\ state' = WAIT_IN_SLEEP
            /\ op' = "start_scan"
            /\ scansSinceTimer' = scansSinceTimer + 1
            /\ escalated' = FALSE
       ELSE /\ op' = "busy"
            /\ UNCHANGED << hwBusy, state, scansSinceTimer, escalated >>
    /\ UNCHANGED << pc, is_fast_scan_enabled, capsense_fast_scan_count,
                    slider_position, slider_pos_prev,
                    slider_touch_status, slider_pos, notifyValue, notifyPending,
                    armedWidget, timerPeriod, timerStarted, locks, newTouch,
                    misses, unprocessed, hold >>

(* xTaskNotifyWait(0, 0, &state, portMAX_DELAY): returns once a notification *)
(* is pending, copies the notification value into `state` and marks the    *)
(* notification consumed; the value itself is not cleared.                 *)
xTaskNotifyWait ==
    /\ notifyPending
    /\ state' = notifyValue
    /\ notifyPending' = FALSE
    /\ scansSinceTimer' = IF notifyValue = INITIATE_SCAN THEN 0 ELSE scansSinceTimer
    /\ UNCHANGED notifyValue

(* Variant of WaitInSleepLock that goes to wait without locking deep sleep. *)
WaitInSleepLock_NoLock ==
    /\ pc = "switch"
    /\ state = WAIT_IN_SLEEP
    /\ pc' = "wait"
    /\ op' = "lock"
    /\ UNCHANGED << state, is_fast_scan_enabled, capsense_fast_scan_count,
                    slider_position, slider_pos_prev, slider_touch_status,
                    slider_pos, notifyValue, notifyPending, locks,
                    hwBusy, armedWidget, timerPeriod, timerStarted, newTouch,
                    misses, unprocessed, scansSinceTimer, escalated, hold >>

(* case WAIT_IN_SLEEP, first half: cyhal_syspm_lock_deepsleep(). *)
WaitInSleepLock ==
    /\ pc = "switch"
    /\ state = WAIT_IN_SLEEP
    /\ IF CAPSENSE_TUNER_ENABLE
       THEN UNCHANGED locks
       ELSE locks < MaxLocks /\ locks' = locks + 1
    /\ pc' = "wait"
    /\ op' = "lock"
    /\ UNCHANGED << state, is_fast_scan_enabled, capsense_fast_scan_count,
                    slider_position, slider_pos_prev,
                    slider_touch_status, slider_pos, notifyValue, notifyPending,
                    hwBusy, armedWidget, timerPeriod, timerStarted, newTouch,
                    misses, unprocessed, scansSinceTimer, escalated, hold >>

(* case WAIT_IN_SLEEP, second half: the task is resumed by a notification. *)
WaitInSleepWake ==
    /\ pc = "wait"
    /\ state = WAIT_IN_SLEEP
    /\ xTaskNotifyWait
    /\ pc' = "switch"
    /\ op' = "wake_sleep"
    /\ UNCHANGED << is_fast_scan_enabled, capsense_fast_scan_count,
                    slider_position, slider_pos_prev,
                    slider_touch_status, slider_pos, hwBusy, armedWidget,
                    timerPeriod, timerStarted, locks, newTouch, misses,
                    unprocessed, escalated, hold >>

(* case WAIT_IN_DEEP_SLEEP, first half: cyhal_syspm_unlock_deepsleep(). *)
WaitInDeepSleepUnlock ==
    /\ pc = "switch"
    /\ state = WAIT_IN_DEEP_SLEEP
    /\ locks' = IF CAPSENSE_TUNER_ENABLE THEN locks ELSE locks - 1
    /\ pc' = "wait"
    /\ op' = "unlock"
    /\ UNCHANGED << state, is_fast_scan_enabled, capsense_fast_scan_count,
                    slider_position, slider_pos_prev,
                    slider_touch_status, slider_pos, notifyValue, notifyPending,
                    hwBusy, armedWidget, timerPeriod, timerStarted, newTouch,
                    misses, unprocessed, scansSinceTimer, escalated, hold >>

(* case WAIT_IN_DEEP_SLEEP, second half: resumed by a notification. *)
WaitInDeepSleepWake ==
    /\ pc = "wait"
    /\ state = WAIT_IN_DEEP_SLEEP
    /\ xTaskNotifyWait
    /\ pc' = "switch"
    /\ op' = "wake_deep_sleep"
    /\ UNCHANGED << is_fast_scan_enabled, capsense_fast_scan_count,
                    slider_position, slider_pos_prev,
                    slider_touch_status, slider_pos, hwBusy, armedWidget,
                    timerPeriod, timerStarted, locks, newTouch, misses,
                    unprocessed, escalated, hold >>

(* Variant of process_touch whose slider case ignores the touch count. *)
process_touch_IgnoresCount(widget_id, numPosition, x, active, prev) ==
    IF widget_id = CY_CAPSENSE_LINEARSLIDER0_WDGT_ID
    THEN x # prev
    ELSE IF widget_id = CY_CAPSENSE_GANGEDSENSOR_WDGT_ID
         THEN active
         ELSE FALSE

(* process_touch: whether widget_id reports a new touch, given the driver's *)
(* result (numPosition, x for the slider; active for the ganged sensor).   *)
process_touch(widget_id, numPosition, x, active, prev) ==
    IF widget_id = CY_CAPSENSE_LINEARSLIDER0_WDGT_ID
    THEN (0 # numPosition) /\ (x # prev)
    ELSE IF widget_id = CY_CAPSENSE_GANGEDSENSOR_WDGT_ID
         THEN active
         ELSE FALSE

(* Variant of process_touch_prev that stores the position for any widget. *)
process_touch_prev_AnyWidget(widget_id, x, prev) == x

(* process_touch: the value left in slider_pos_prev. *)
process_touch_prev(widget_id, x, prev) ==
    IF widget_id = CY_CAPSENSE_LINEARSLIDER0_WDGT_ID THEN x ELSE prev

(* Variant of FastCountBelowMax with >= in place of >. *)
FastCountBelowMax_OffByOne(count) == MAX_CAPSENSE_FAST_SCAN_COUNT >= count

(* The fast-branch test of the miss counter against the maximum. *)
FastCountBelowMax(count) == MAX_CAPSENSE_FAST_SCAN_COUNT > count

(* Bookkeeping of a sustained hold since start-up (not program state). *)
HoldAfter(h, fast, numPosition, x) ==
    IF fast /\ numPosition = 1 /\ h.k >= 0 /\ h.k < HoldLen /\ (h.k = 0 \/ h.p = x)
    THEN [p |-> x, k |-> h.k + 1]
    ELSE NoHold

(* Variant of FastScanUpdate that increments the count first and tests it  *)
(* against the maximum afterwards, switching in the same pass.             *)
FastScanUpdate_TestAfterIncrement(new) ==
    IF new
    THEN /\ capsense_fast_scan_count' = RESET_CAPSENSE_FAST_SCAN_COUNT
         /\ misses' = 0
         /\ UNCHANGED << is_fast_scan_enabled, armedWidget, timerPeriod, escalated >>
    ELSE /\ misses' = misses + 1
         /\ capsense_fast_scan_count' =
               IF FastCountBelowMax(capsense_fast_scan_count)
               THEN capsense_fast_scan_count + 1 ELSE capsense_fast_scan_count
         /\ IF FastCountBelowMax(capsense_fast_scan_count + 1)
            THEN UNCHANGED << is_fast_scan_enabled, armedWidget, timerPeriod,
                              escalated >>
            ELSE /\ is_fast_scan_enabled' = FALSE
                 /\ armedWidget' = IF CAPSENSE_TUNER_ENABLE THEN armedWidget
                                   ELSE CY_CAPSENSE_GANGEDSENSOR_WDGT_ID
                 /\ timerPeriod' = CAPSENSE_SLOW_SCAN_INTERVAL_MS
                 /\ UNCHANGED escalated

(* Variant of FastScanUpdate that switches to slow scan without setting up *)
(* the ganged sensor for the next scan.                                    *)
FastScanUpdate_NoSetupWidget(new) ==
    IF new
    THEN /\ capsense_fast_scan_count' = RESET_CAPSENSE_FAST_SCAN_COUNT
         /\ misses' = 0
         /\ UNCHANGED << is_fast_scan_enabled, armedWidget, timerPeriod, escalated >>
    ELSE /\ misses' = misses + 1
         /\ IF FastCountBelowMax(capsense_fast_scan_count)
            THEN /\ capsense_fast_scan_count' = capsense_fast_scan_count + 1
                 /\ UNCHANGED << is_fast_scan_enabled, armedWidget, timerPeriod,
                                 escalated >>
            ELSE /\ is_fast_scan_enabled' = FALSE
                 /\ timerPeriod' = CAPSENSE_SLOW_SCAN_INTERVAL_MS
                 /\ UNCHANGED << capsense_fast_scan_count, armedWidget, escalated >>

(* case PROCESS_TOUCH, fast branch: what follows process_touch on the      *)
(* linear slider; `new` is its return value.                               *)
FastScanUpdate(new) ==
    IF new
    THEN /\ capsense_fast_scan_count' = RESET_CAPSENSE_FAST_SCAN_COUNT
         /\ misses' = 0
         /\ UNCHANGED << is_fast_scan_enabled, armedWidget, timerPeriod, escalated >>
    ELSE /\ misses' = misses + 1
         /\ IF FastCountBelowMax(capsense_fast_scan_count)
            THEN /\ capsense_fast_scan_count' = capsense_fast_scan_count + 1
                 /\ UNCHANGED << is_fast_scan_enabled, armedWidget, timerPeriod,
                                 escalated >>
            ELSE /\ is_fast_scan_enabled' = FALSE
                 /\ armedWidget' = IF CAPSENSE_TUNER_ENABLE THEN armedWidget
                                   ELSE CY_CAPSENSE_GANGEDSENSOR_WDGT_ID
                 /\ timerPeriod' = CAPSENSE_SLOW_SCAN_INTERVAL_MS
                 /\ UNCHANGED << capsense_fast_scan_count, escalated >>

(* Variant of SlowScanUpdate that requests the slow period when a touch is *)
(* detected, as the comment above that call words it.                      *)
SlowScanUpdate_SlowPeriod(new) ==
    IF new
    THEN /\ is_fast_scan_enabled' = TRUE
         /\ armedWidget' = IF CAPSENSE_TUNER_ENABLE THEN armedWidget
                           ELSE CY_CAPSENSE_LINEARSLIDER0_WDGT_ID
         /\ capsense_fast_scan_count' = RESET_CAPSENSE_FAST_SCAN_COUNT
         /\ timerPeriod' = CAPSENSE_SLOW_SCAN_INTERVAL_MS
         /\ misses' = 0
         /\ escalated' = TRUE
    ELSE UNCHANGED << is_fast_scan_enabled, armedWidget, capsense_fast_scan_count,
                      timerPeriod, misses, escalated >>

(* Variant of SlowScanUpdate that does not reset the count on a touch. *)
SlowScanUpdate_NoCountReset(new) ==
    IF new
    THEN /\ is_fast_scan_enabled' = TRUE
         /\ armedWidget' = IF CAPSENSE_TUNER_ENABLE THEN armedWidget
                           ELSE CY_CAPSENSE_LINEARSLIDER0_WDGT_ID
         /\ timerPeriod' = CAPSENSE_FAST_SCAN_INTERVAL_MS
         /\ misses' = 0
         /\ escalated' = TRUE
         /\ UNCHANGED capsense_fast_scan_count
    ELSE UNCHANGED << is_fast_scan_enabled, armedWidget, capsense_fast_scan_count,
                      timerPeriod, misses, escalated >>

(* case PROCESS_TOUCH, slow branch: what follows process_touch on the      *)
(* ganged sensor; `new` is its return value.                               *)
SlowScanUpdate(new) ==
    IF new
    THEN /\ is_fast_scan_enabled' = TRUE
         /\ armedWidget' = IF CAPSENSE_TUNER_ENABLE THEN armedWidget
                           ELSE CY_CAPSENSE_LINEARSLIDER0_WDGT_ID
         /\ capsense_fast_scan_count' = RESET_CAPSENSE_FAST_SCAN_COUNT
         /\ timerPeriod' = CAPSENSE_FAST_SCAN_INTERVAL_MS
         /\ misses' = 0
         /\ escalated' = TRUE
    ELSE UNCHANGED << is_fast_scan_enabled, armedWidget, capsense_fast_scan_count,
                      timerPeriod, misses, escalated >>

(* case PROCESS_TOUCH: process the scanned widget, adapt the cadence. *)
ProcessTouch ==
    /\ pc = "switch"
    /\ state = PROCESS_TOUCH
    /\ \E numPosition \in 0 .. MaxTouches, x \in Positions, active \in BOOLEAN :
         LET widget_id == IF is_fast_scan_enabled
                          THEN CY_CAPSENSE_LINEARSLIDER0_WDGT_ID
                          ELSE CY_CAPSENSE_GANGEDSENSOR_WDGT_ID
             new == process_touch(widget_id, numPosition, x, active, slider_pos_prev)
         IN
         /\ newTouch' = new
         /\ slider_pos_prev' = process_touch_prev(widget_id, x, slider_pos_prev)
         /\ IF widget_id = CY_CAPSENSE_LINEARSLIDER0_WDGT_ID
            THEN slider_touch_status' = numPosition /\ slider_pos' = x
            ELSE UNCHANGED << slider_touch_status, slider_pos >>
         /\ slider_position' = IF new /\ widget_id = CY_CAPSENSE_LINEARSLIDER0_WDGT_ID
                               THEN x ELSE slider_position
         /\ hold' = HoldAfter(hold, is_fast_scan_enabled, numPosition, x)
         /\ IF is_fast_scan_enabled
            THEN FastScanUpdate(new)
            ELSE SlowScanUpdate(new)
    /\ state' = WAIT_IN_DEEP_SLEEP
    /\ unprocessed' = FALSE
    /\ op' = IF is_fast_scan_enabled THEN "process_fast" ELSE "process_slow"
    /\ UNCHANGED << pc, notifyValue, notifyPending, hwBusy, timerStarted, locks,
                    scansSinceTimer >>

(* Variant of capsense_callback that also fires when no scan is in flight  *)
(* (a spurious end-of-scan interrupt).                                     *)
capsense_callback_Spurious ==
    /\ hwBusy' = FALSE
    /\ notifyValue' = PROCESS_TOUCH
    /\ notifyPending' = TRUE
    /\ unprocessed' = TRUE
    /\ op' = "scan_complete"
    /\ UNCHANGED workerVars

(* capsense_callback: the end-of-scan interrupt; the hardware is idle again *)
(* and PROCESS_TOUCH is written to the notification value (overwrite).     *)
capsense_callback ==
    /\ hwBusy
    /\ hwBusy' = FALSE
    /\ notifyValue' = PROCESS_TOUCH
    /\ notifyPending' = TRUE
    /\ unprocessed' = TRUE
    /\ op' = "scan_complete"
    /\ UNCHANGED workerVars

(* Variant of scan_timer_callback that writes the FSM variable itself      *)
(* besides notifying the task.                                             *)
scan_timer_callback_WritesState ==
    /\ timerStarted
    /\ notifyValue' = INITIATE_SCAN
    /\ notifyPending' = TRUE
    /\ state' = INITIATE_SCAN
    /\ op' = "timer"
    /\ UNCHANGED << pc, is_fast_scan_enabled, capsense_fast_scan_count,
                    slider_position, slider_pos_prev, slider_touch_status,
                    slider_pos, armedWidget, timerPeriod, timerStarted, locks,
                    newTouch, misses, scansSinceTimer, escalated, hold >>
    /\ UNCHANGED << hwBusy, unprocessed >>

(* Variant of scan_timer_callback for a one-shot timer (no auto-reload):   *)
(* the timer is dormant after it has expired once.                         *)
scan_timer_callback_OneShot ==
    /\ timerStarted
    /\ timerStarted' = FALSE
    /\ notifyValue' = INITIATE_SCAN
    /\ notifyPending' = TRUE
    /\ op' = "timer"
    /\ UNCHANGED << pc, state, is_fast_scan_enabled, capsense_fast_scan_count,
                    slider_position, slider_pos_prev, slider_touch_status,
                    slider_pos, armedWidget, timerPeriod, locks,
                    newTouch, misses, scansSinceTimer, escalated, hold >>
    /\ UNCHANGED << hwBusy, unprocessed >>

(* scan_timer_callback: the periodic timer expired; INITIATE_SCAN is       *)
(* written to the notification value (overwrite).                          *)
scan_timer_callback ==
    /\ timerStarted
    /\ notifyValue' = INITIATE_SCAN
    /\ notifyPending' = TRUE
    /\ op' = "timer"
    /\ UNCHANGED workerVars
    /\ UNCHANGED << hwBusy, unprocessed >>

Next ==
    \/ capsense_task_init
    \/ InitiateScan
    \/ WaitInSleepLock
    \/ WaitInSleepWake
    \/ WaitInDeepSleepUnlock
    \/ WaitInDeepSleepWake
    \/ ProcessTouch
    \/ capsense_callback
    \/ scan_timer_callback

Spec == Init /\ [][Next]_vars

(* The same lock call with the lock count followed only up to MaxLocks:    *)
(* a lock beyond MaxLocks leaves the count there, so that the task can     *)
(* always proceed.  Used where progress, not the count, is examined.       *)
WaitInSleepLockSaturating ==
    /\ pc = "switch"
    /\ state = WAIT_IN_SLEEP
    /\ locks' = IF CAPSENSE_TUNER_ENABLE \/ locks >= MaxLocks THEN locks ELSE locks + 1
    /\ pc' = "wait"
    /\ op' = "lock"
    /\ UNCHANGED << state, is_fast_scan_enabled, capsense_fast_scan_count,
                    slider_position, slider_pos_prev, slider_touch_status,
                    slider_pos, notifyValue, notifyPending,
                    hwBusy, armedWidget, timerPeriod, timerStarted, newTouch,
                    misses, unprocessed, scansSinceTimer, escalated, hold >>

(* The steps of capsense_task. *)
Worker ==
    \/ capsense_task_init
    \/ InitiateScan
    \/ WaitInSleepLockSaturating
    \/ WaitInSleepWake
    \/ WaitInDeepSleepUnlock
    \/ WaitInDeepSleepWake
    \/ ProcessTouch

FairNext ==
    \/ Worker
    \/ capsense_callback
    \/ scan_timer_callback

(* Fair scheduling: the task runs whenever it is ready, a started scan     *)
(* completes, and the periodic timer keeps expiring.                       *)
FairSpec ==
    /\ Init
    /\ [][FairNext]_vars
    /\ WF_vars(Worker)
    /\ WF_vars(capsense_callback)
    /\ WF_vars(scan_timer_callback)

(* ======================================================================= *)
(* Properties                                                              *)
(* ======================================================================= *)

(* A step of the behaviour that issues start_scan (Cy_CapSense_Scan). *)
IsStartScan == op' = "start_scan" /\ vars' # vars

(* A step of the behaviour that is one pass through case INITIATE_SCAN. *)
IsInitiateScanPass ==
    /\ pc = "switch" /\ state = INITIATE_SCAN
    /\ op' \in {"start_scan", "busy"} /\ vars' # vars

(* The loop of capsense_task has been entered. *)
InLoop == pc \in {"switch", "wait"}

(* C1: for every interleaving of timer and scan-complete events with the   *)
(* worker's steps, start_scan is never issued while the sensing hardware   *)
(* is busy with a scan that has not completed.                             *)
C1_NoScanWhileBusy == [][IsStartScan => ~hwBusy]_vars

(* C1 witness: an INITIATE_SCAN pass found the hardware busy and issued    *)
(* no scan.                                                                *)
C1_Witness == op = "busy" /\ hwBusy /\ state = INITIATE_SCAN

(* C2 (as claimed): lock and unlock calls strictly alternate starting with *)
(* a lock: after every prefix the number of lock calls minus the number of *)
(* unlock calls is 0 or 1.                                                 *)
C2_LocksAlternate == locks \in {0, 1}

(* C3 (as claimed): suspended in WAIT_IN_DEEP_SLEEP the number of          *)
(* outstanding deep-sleep locks is 0, suspended in WAIT_IN_SLEEP it is     *)
(* exactly 1.                                                              *)
C3_LockHeldAcrossWaits ==
    /\ (pc = "wait" /\ state = WAIT_IN_DEEP_SLEEP) => locks = 0
    /\ (pc = "wait" /\ state = WAIT_IN_SLEEP) => locks = 1

(* C4 (as claimed): no transition is lost to a stray timer event: for      *)
(* every scan that completes, a PROCESS_TOUCH pass runs before the next    *)
(* start_scan is issued.                                                   *)
C4_ProcessedBeforeNextScan == [][IsStartScan => ~unprocessed]_vars

(* C5 (as claimed): every change of `state` is one of the four edges       *)
(* INITIATE_SCAN -> WAIT_IN_SLEEP -> PROCESS_TOUCH -> WAIT_IN_DEEP_SLEEP   *)
(* -> INITIATE_SCAN, whichever value was posted to the mailbox.            *)
C5_CycleEdgesOnly ==
    [][state' # state =>
          \/ state = INITIATE_SCAN /\ state' = WAIT_IN_SLEEP
          \/ state = WAIT_IN_SLEEP /\ state' = PROCESS_TOUCH
          \/ state = PROCESS_TOUCH /\ state' = WAIT_IN_DEEP_SLEEP
          \/ state = WAIT_IN_DEEP_SLEEP /\ state' = INITIATE_SCAN]_vars

(* C6 (as claimed): in every reachable state a scan is in flight (started  *)
(* and not yet completed) if and only if `state` is WAIT_IN_SLEEP.         *)
C6_InFlightIffWaitInSleep == hwBusy <=> (state = WAIT_IN_SLEEP)

(* C7: fallback boundary.  Counting the fast-mode passes without a new     *)
(* touch since the count was last reset to 1: after fewer than             *)
(* MAX_CAPSENSE_FAST_SCAN_COUNT of them the mode is still fast, the linear *)
(* slider is armed and the period is the fast interval; the                *)
(* MAX_CAPSENSE_FAST_SCAN_COUNT-th one switches to slow, arms the ganged   *)
(* sensor and requests the slow interval; the switch is never later.       *)
C7_FallbackBoundary ==
    InLoop =>
       /\ misses <= MAX_CAPSENSE_FAST_SCAN_COUNT
       /\ misses < MAX_CAPSENSE_FAST_SCAN_COUNT =>
             /\ is_fast_scan_enabled
             /\ armedWidget = CY_CAPSENSE_LINEARSLIDER0_WDGT_ID
             /\ timerPeriod = CAPSENSE_FAST_SCAN_INTERVAL_MS
             /\ capsense_fast_scan_count = misses + 1
       /\ misses = MAX_CAPSENSE_FAST_SCAN_COUNT =>
             /\ ~is_fast_scan_enabled
             /\ armedWidget = CY_CAPSENSE_GANGEDSENSOR_WDGT_ID
             /\ timerPeriod = CAPSENSE_SLOW_SCAN_INTERVAL_MS

(* C7 witness: the fast pass that was the MAX_CAPSENSE_FAST_SCAN_COUNT-th  *)
(* miss has just switched to slow.                                         *)
C7_Witness ==
    /\ op = "process_fast" /\ ~newTouch
    /\ misses = MAX_CAPSENSE_FAST_SCAN_COUNT /\ ~is_fast_scan_enabled

C9_OneScanPerTrigger ==
    [][/\ (IsInitiateScanPass /\ hwBusy) =>
              /\ hwBusy' /\ state' = INITIATE_SCAN
              /\ scansSinceTimer' = scansSinceTimer
       /\ scansSinceTimer' <= 1]_vars

(* C9 witness: after a timer notification was consumed, an INITIATE_SCAN   *)
(* pass found the hardware busy and no scan has been issued for this       *)
(* trigger.                                                                *)
C9_Witness ==
    /\ op = "busy" /\ state = INITIATE_SCAN /\ hwBusy
    /\ notifyValue = INITIATE_SCAN /\ scansSinceTimer = 0

(* C10 (as claimed): sustained hold from the initial state.  For every     *)
(* position p, if the first k passes each report one touch at p, the first *)
(* pass reports a new touch at p and leaves the count at 1, pass i >= 2    *)
(* reports no new touch and leaves the count at i, and the mode stays      *)
(* fast.                                                                   *)
C10_SustainedHold ==
    /\ hold.k >= 1 => is_fast_scan_enabled
    /\ hold.k = 1 =>
          /\ newTouch /\ slider_position = hold.p
          /\ capsense_fast_scan_count = RESET_CAPSENSE_FAST_SCAN_COUNT
    /\ hold.k >= 2 => (~newTouch /\ capsense_fast_scan_count = hold.k)

(* C11: if initialize_capsense fails the task halts: the timer is never    *)
(* started, no scan is issued, deep sleep is neither locked nor unlocked,  *)
(* the loop is never entered, and no step follows the halt (no retry).     *)
C11_InitFailureHalts ==
    [][/\ pc # "halt"
       /\ op' = "init_failed" =>
             /\ pc' = "halt" /\ ~timerStarted' /\ ~hwBusy'
             /\ locks' = 0 /\ ~notifyPending' /\ state' = INITIATE_SCAN]_vars

(* C11 witness: initialize_capsense has failed and the task is halted. *)
C11_Witness == op = "init_failed" /\ pc = "halt" /\ ~timerStarted

(* C12 (as claimed): in every reachable state in which a scan is in flight *)
(* at least one deep-sleep lock is outstanding.                            *)
C12_LockedWhileInFlight == hwBusy => locks >= 1

(* C12 (amended): whenever the task is blocked in xTaskNotifyWait while a  *)
(* scan is in flight, at least one deep-sleep lock is outstanding; the     *)
(* lock call follows start_scan, in the next pass of the loop.             *)
C12_LockedWhileBlockedInFlight == (pc = "wait" /\ hwBusy) => locks >= 1

(* C12 witness: the task is blocked in WAIT_IN_SLEEP with the scan in      *)
(* flight and the lock held.                                               *)
C12_Witness ==
    pc = "wait" /\ state = WAIT_IN_SLEEP /\ hwBusy /\ locks = 1 /\ ~notifyPending

(* C13: the timer callback and the end-of-scan callback only post to the   *)
(* notification slot: state, mode, count, previous position, armed widget, *)
(* timer period and lock count change only in steps of the task.           *)
C13_CallbacksOnlyPost ==
    [][op' \in {"timer", "scan_complete"} =>
          UNCHANGED << state, is_fast_scan_enabled, capsense_fast_scan_count,
                       slider_pos_prev, armedWidget, timerPeriod, locks >>]_vars

(* C13 witness: the timer posted INITIATE_SCAN while the task is blocked   *)
(* in WAIT_IN_SLEEP; `state` still holds WAIT_IN_SLEEP.                    *)
C13_Witness ==
    /\ op = "timer" /\ pc = "wait" /\ state = WAIT_IN_SLEEP
    /\ notifyPending /\ notifyValue = INITIATE_SCAN

(* C14 (as claimed): automatic fallback.  Under fair scheduling of the     *)
(* task, the timer and scan completion, the running system cannot stay in  *)
(* fast mode for ever without a new touch being reported: again and again  *)
(* either a fast pass reports a new touch or the mode is slow.             *)
C14_FallbackEventually ==
    []<>(\/ pc = "halt"
         \/ ~is_fast_scan_enabled
         \/ (op = "process_fast" /\ newTouch))

(* A step of the behaviour that is a PROCESS_TOUCH pass in fast mode. *)
IsFastPass == op' = "process_fast" /\ vars' # vars

(* A step of the behaviour that is a PROCESS_TOUCH pass in slow mode. *)
IsSlowPass == op' = "process_slow" /\ vars' # vars

(* C15 (as claimed): the task never polls.  After an INITIATE_SCAN pass    *)
(* that found the hardware busy the task is not about to run INITIATE_SCAN *)
(* (and ask Cy_CapSense_IsBusy) again without a notification waking it;    *)
(* it waits only in WAIT_IN_SLEEP and WAIT_IN_DEEP_SLEEP.                  *)
C15_NoPolling ==
    /\ op = "busy" => ~(pc = "switch" /\ state = INITIATE_SCAN)
    /\ pc = "wait" => state \in {WAIT_IN_SLEEP, WAIT_IN_DEEP_SLEEP}

(* C16 (as claimed): whenever `state` is not WAIT_IN_SLEEP the hardware is *)
(* idle, so a PROCESS_TOUCH pass never runs with a scan in flight.         *)
C16_IdleOutsideWaitInSleep == (state # WAIT_IN_SLEEP) => ~hwBusy

(* C17 (as claimed): a fast pass without new touch increments the count    *)
(* and switches to slow in the same pass when the count is then at the     *)
(* maximum; so fast mode implies a count below the maximum.                *)
C17_FastImpliesBelowMax ==
    is_fast_scan_enabled => capsense_fast_scan_count < MAX_CAPSENSE_FAST_SCAN_COUNT

(* C17 (amended): a fast pass without new touch that finds the count below *)
(* the maximum increments it and stays fast, also when the increment       *)
(* brings it to the maximum; a pass that finds it at the maximum switches  *)
(* to slow and leaves the count; fast mode implies count <= maximum.       *)
C17_TestBeforeIncrement ==
    [][/\ (IsFastPass /\ ~newTouch') =>
             IF capsense_fast_scan_count < MAX_CAPSENSE_FAST_SCAN_COUNT
             THEN /\ capsense_fast_scan_count' = capsense_fast_scan_count + 1
                  /\ is_fast_scan_enabled'
             ELSE /\ capsense_fast_scan_count = MAX_CAPSENSE_FAST_SCAN_COUNT
                  /\ capsense_fast_scan_count' = capsense_fast_scan_count
                  /\ ~is_fast_scan_enabled'
       /\ is_fast_scan_enabled' =>
             capsense_fast_scan_count' <= MAX_CAPSENSE_FAST_SCAN_COUNT]_vars

(* C17 witness: a fast pass without new touch has brought the count to the *)
(* maximum and the mode is still fast.                                     *)
C17_Witness ==
    /\ op = "process_fast" /\ ~newTouch /\ is_fast_scan_enabled
    /\ capsense_fast_scan_count = MAX_CAPSENSE_FAST_SCAN_COUNT

(* C18: the count stays within 1..MAX_CAPSENSE_FAST_SCAN_COUNT; every pass *)
(* that detects a new touch (fast or slow) sets it to 1; a slow pass that  *)
(* detects nothing leaves it.                                              *)
C18_CountRange ==
    [][/\ capsense_fast_scan_count \in 1 .. MAX_CAPSENSE_FAST_SCAN_COUNT
       /\ capsense_fast_scan_count' \in 1 .. MAX_CAPSENSE_FAST_SCAN_COUNT
       /\ ((IsFastPass \/ IsSlowPass) /\ newTouch') =>
             capsense_fast_scan_count' = RESET_CAPSENSE_FAST_SCAN_COUNT
       /\ (IsSlowPass /\ ~newTouch') =>
             capsense_fast_scan_count' = capsense_fast_scan_count]_vars

(* C18 witness: a slow pass has detected a touch and reset the count from  *)
(* the maximum to 1.                                                       *)
C18_Witness ==
    /\ op = "process_slow" /\ newTouch /\ is_fast_scan_enabled
    /\ capsense_fast_scan_count = RESET_CAPSENSE_FAST_SCAN_COUNT
    /\ misses = 0

(* C19: in a fast pass a new touch is reported exactly when the touch      *)
(* count is not 0 and the position differs from the previous position; the *)
(* position is handed out only then; afterwards the previous position is   *)
(* the position of this pass, new touch or not.                            *)
C19_NewTouchRule ==
    [][IsFastPass =>
          /\ newTouch' <=> (slider_touch_status' # 0 /\ slider_pos' # slider_pos_prev)
          /\ slider_position' = IF newTouch' THEN slider_pos' ELSE slider_position
          /\ slider_pos_prev' = slider_pos']_vars

(* C19 witness: a fast pass with touch count 0 reported no new touch and   *)
(* still recorded its position, which was never handed out.                *)
C19_Witness ==
    /\ op = "process_fast" /\ ~newTouch /\ slider_touch_status = 0
    /\ slider_pos_prev = slider_pos /\ slider_pos # slider_position

(* C20: a slow pass in which the ganged sensor is not active leaves mode   *)
(* (slow), armed widget (ganged sensor), timer period (slow), count and    *)
(* previous position unchanged; it only moves to WAIT_IN_DEEP_SLEEP.       *)
C20_SlowMissFrame ==
    [][(IsSlowPass /\ ~newTouch') =>
          /\ ~is_fast_scan_enabled /\ ~is_fast_scan_enabled'
          /\ armedWidget = CY_CAPSENSE_GANGEDSENSOR_WDGT_ID
          /\ timerPeriod = CAPSENSE_SLOW_SCAN_INTERVAL_MS
          /\ state' = WAIT_IN_DEEP_SLEEP
          /\ UNCHANGED << armedWidget, timerPeriod, capsense_fast_scan_count,
                          slider_pos_prev, slider_position, pc, locks, hwBusy,
                          notifyValue, notifyPending >>]_vars

(* C20 witness: a slow pass has just found the ganged sensor inactive. *)
C20_Witness ==
    /\ op = "process_slow" /\ ~newTouch /\ ~is_fast_scan_enabled
    /\ state = WAIT_IN_DEEP_SLEEP

(* A step of the behaviour that calls cyhal_syspm_unlock_deepsleep. *)
IsUnlock == op' = "unlock" /\ vars' # vars

(* C21: with the tuner disabled the task never calls unlock while no lock  *)
(* is outstanding: at every unlock call at least one lock is held, so      *)
(* after every prefix of every execution the unlock calls are at most the  *)
(* lock calls (locks, their difference, never goes below 0).               *)
C21_NoUnlockWithoutLock ==
    [][(IsUnlock => locks >= 1) /\ locks' >= 0]_vars

(* C21 witness: an unlock call has just released the last outstanding lock *)
(* while a stray timer notification is pending.                            *)
C21_Witness ==
    /\ op = "unlock" /\ locks = 0
    /\ state = WAIT_IN_DEEP_SLEEP /\ pc = "wait"
    /\ notifyPending /\ notifyValue = INITIATE_SCAN

(* Mode, widget set up for the next scan and requested timer period agree. *)
CadenceAgrees ==
    /\ is_fast_scan_enabled <=> (armedWidget = CY_CAPSENSE_LINEARSLIDER0_WDGT_ID)
    /\ ~is_fast_scan_enabled <=> (armedWidget = CY_CAPSENSE_GANGEDSENSOR_WDGT_ID)
    /\ is_fast_scan_enabled <=> (timerPeriod = CAPSENSE_FAST_SCAN_INTERVAL_MS)
    /\ ~is_fast_scan_enabled <=> (timerPeriod = CAPSENSE_SLOW_SCAN_INTERVAL_MS)

C23_Progress ==
    /\ []<>(pc = "halt" \/ op = "start_scan")
    /\ []<>(pc # "wait")

(* C23 witness: a scan has just been started although the end-of-scan      *)
(* notification of the previous scan was overwritten by a timer            *)
(* notification and its result was never processed.                        *)
C23_Witness ==
    /\ op = "start_scan" /\ hwBusy /\ state = WAIT_IN_SLEEP
    /\ unprocessed /\ scansSinceTimer = 1

====
